---- MODULE Spec2Model ----
(***************************************************************************)
(* Model of pkg/downloader/downloader.go: one Job of a Downloader, from    *)
(* Job.Download through the probe (fetchInfo), the destination chooser,    *)
(* the file-name check and the parallel fetch phase (multiThreadDownload   *)
(* with its chunk workers, downloadChunk).                                 *)
(*                                                                         *)
(* A Job whose Url has the scheme "ftp" takes downloadFtp instead.         *)
(* SpecNewJob is the Downloader with concurrent NewJob calls, SpecCreate   *)
(* is createTargetFile over the contents of the destination directory.     *)
(***************************************************************************)
EXTENDS Integers, Sequences, FiniteSets, TLC

\* ---------------------------------------------------------------- bounds
MaxThreadsBound == 2      \* largest worker ceiling (Option.MaxThreads) explored
MaxSize == 2              \* largest Content-Length the probe reports under Spec
MaxMinChunk == 1          \* largest Option.MinChunkSize explored under Spec
MaxCalls == 2             \* NewJob calls on one Downloader
MaxSets == 1              \* assignments to the Downloader's Option after New
MaxIndex == 2             \* numbered names base(1).ext .. that may exist already
MaxClock == 1             \* clock ticks observed after Download is entered
PlanMaxThreads == 4       \* largest worker ceiling explored under SpecPlan
PlanMaxSize == 12         \* largest small totalSize explored under SpecPlan
PlanMaxMinChunk == 4      \* largest small MinChunkSize explored under SpecPlan

\* ------------------------------------------------------ program constants
MaxRetry == 3             \* "if retry >= 3": retries after the first attempt
UintBits == 30            \* uint64 arithmetic, scaled to 30 bits: TLC's integers
                          \* are 32 bits wide; wrap-around is kept (% 2^UintBits)

UintMod == 2 ^ UintBits
U64(x) == x % UintMod                    \* a value of type uint64
MaxUint == UintMod - 1

\* goroutine indexes "i" of the launch loop
Workers == 0 .. ((IF PlanMaxThreads > MaxThreadsBound THEN PlanMaxThreads
                                                      ELSE MaxThreadsBound) - 1)

\* File names are sequences of characters; only the presence of "." matters.
NameEmpty == << >>
NameNoExt == << "f" >>
NameExt == << "f", ".", "t" >>
Names == { NameEmpty, NameNoExt, NameExt }

\* strings.Contains(name, ".")
ContainsDot(name) == \E k \in DOMAIN name : name[k] = "."

\* A value Download returns: an error kind ("nil": no error) and, for the
\* error of a chunk worker, the worker it came from.
Ret(kind) == [ kind |-> kind, worker |-> -1 ]
ChunkErr(kind, w) == [ kind |-> kind, worker |-> w ]

NoFile == [ exists |-> FALSE, bytes |-> << >>, closed |-> FALSE ]

\* The resource served: byte at offset k (a pattern that differs between
\* neighbouring offsets).
ResourceByte(k) == (k % 3) + 1
Resource(size) == [ k \in 1 .. size |-> ResourceByte(k - 1) ]

VARIABLES
    MaxThreads,            \* Option.MaxThreads (int)
    MinChunkSize,          \* Option.MinChunkSize (uint64)
    EnableSaveFileDialog,  \* Option.EnableSaveFileDialog
    Timeout,               \* Option.Timeout, in clock ticks
    isFtp,                 \* Job.isFtp
    Overwrite,             \* Option.Overwrite
    FileNamePrefix,        \* Option.FileNamePrefix
    FileName,              \* Job.FileName
    FileSize,              \* Job.FileSize (uint64)
    isSupportRange,        \* Job.isSupportRange
    lck,                   \* Job._lck: "nil" or a mutex state
    sizeParsed,            \* fetchInfo's strconv.ParseUint: "none", "ok", "fail"
    jobPc,                 \* where the goroutine that called Download is
    result,                \* what Download returned ("none" while running)
    probe,                 \* outcome of fetchInfo: "none", "ok", "fail"
    dialog,                \* outcome of openSaveFileDialog: "none", "accepted", "declined"
    now,                   \* clock ticks since Download was entered
    expired,               \* the deadline passed while the Job was probing or fetching
    file,                  \* the destination file of multiThreadDownload
    theads,                \* multiThreadDownload: theads
    chunkSize,             \* multiThreadDownload: chunkSize
    i,                     \* multiThreadDownload: loop index of the launch loop
    wg,                    \* sync.WaitGroup counter
    ctxDone,               \* ctx.Done() is closed (cancel() was called)
    errs,                  \* multiThreadDownload: errs
    tripper,               \* the worker whose cancel() closed ctx.Done(), -1: none
    disk,                  \* the files of Option.Dir: name -> "old" or "new" content
    original,              \* createTargetFile: original
    index,                 \* createTargetFile: index (0: the loop was not entered)
    pc,                    \* per worker goroutine: its position
    retry,                 \* per worker goroutine: retry
    start,                 \* per worker goroutine: start
    end,                   \* per worker goroutine: end
    err,                   \* per worker goroutine: err of the attempt just made
    attempts,              \* per worker goroutine: ranged requests issued so far
    crashed,               \* the process has exited on an unrecovered panic
    lastJobId,             \* Downloader.lastJobId (uint64)
    Option,                \* Downloader.Option
    jobs,                  \* the Jobs NewJob has returned, oldest first
    callPc,                \* per goroutine calling NewJob: its position
    callId,                \* per caller: the lastJobId its "++" has read
    callOpt,               \* per caller: opt of NewJob
    callExpected,          \* per caller: d.Option with the caller's setter applied
    calls,                 \* NewJob calls made so far
    sets                   \* assignments to the Downloader's Option so far

jobVars == << FileName, FileSize, isSupportRange, lck, sizeParsed >>
\* The Downloader and the NewJob calls on it.
dlVars == << lastJobId, Option, jobs, callPc, callId, callOpt, callExpected,
            calls, sets >>
\* What a running Job never changes: its own Option and Url scheme, and the
\* Downloader it came from.
optVars == << MaxThreads, MinChunkSize, EnableSaveFileDialog, Timeout, isFtp,
             Overwrite, FileNamePrefix, dlVars >>
\* The destination directory and the locals of createTargetFile.
fsVars == << disk, original, index >>
mtdVars == << file, theads, chunkSize, i, wg, ctxDone, errs, tripper >>
wrkVars == << pc, retry, start, end, err, attempts >>
vars == << MaxThreads, MinChunkSize, EnableSaveFileDialog, Timeout, isFtp, FileName,
           FileSize, isSupportRange, lck, sizeParsed, jobPc, result, probe,
           dialog, now,
           expired, file, theads, chunkSize, i, wg, ctxDone, errs, tripper, pc,
           retry,
           start, end, err, attempts, crashed, dlVars, Overwrite,
           FileNamePrefix, fsVars >>
\* Everything of a running Job.
downloadVars == << MaxThreads, MinChunkSize, EnableSaveFileDialog, Timeout,
                  isFtp, Overwrite, FileNamePrefix, jobVars, mtdVars, fsVars,
                  wrkVars, jobPc, result, probe, dialog, now, expired,
                  crashed >>

\* ------------------------------------------------------------ AvaiableTreads
\* math.Ceil(float64(a) / float64(b)) for b > 0: the operands explored are far
\* below 2^53, where float64 holds every integer and the quotient's ceiling is
\* the exact one.
Ceil(a, b) == IF a % b = 0 THEN a \div b ELSE (a \div b) + 1

\* AvaiableTreads with the quotient truncated instead of rounded up.
AvaiableTreadsTruncated ==
    IF ~isSupportRange THEN 1
    ELSE IF FileSize < MinChunkSize THEN 1
    ELSE IF MinChunkSize <= 0 THEN 1
    ELSE LET threads == FileSize \div MinChunkSize
         IN  IF threads > MaxThreads THEN MaxThreads
             ELSE IF threads < 1 THEN 1
             ELSE threads

AvaiableTreads ==
    IF ~isSupportRange THEN 1
    ELSE IF FileSize < MinChunkSize THEN 1
    ELSE IF MinChunkSize <= 0 THEN 1
    ELSE LET threads == Ceil(FileSize, MinChunkSize)
         IN  IF threads > MaxThreads THEN MaxThreads
             ELSE IF threads < 1 THEN 1
             ELSE threads

\* chunkSize := uint64(math.Ceil(float64(job.FileSize) / float64(theads)))
ChunkSizeOf(size, n) == U64(Ceil(size, n))

\* start := uint64(i) * chunkSize
RangeStart(k, cs) == U64(k * cs)

\* end := start + chunkSize - 1; the last part: end = job.FileSize - 1
RangeEnd(k, cs, n, size) ==
    IF k = n - 1 THEN U64(size - 1) ELSE U64(RangeStart(k, cs) + cs - 1)

\* ------------------------------------------------------------------- Init
\* The Job as NewJob returns it (FileName "", FileSize 0, isSupportRange
\* false, _lck not set), with an Option the caller chose.
InitJob ==
    /\ FileName = NameEmpty
    /\ FileSize = 0
    /\ isSupportRange = FALSE
    /\ lck = "nil"
    /\ sizeParsed = "none"
    /\ probe = "none"
    /\ dialog = "none"

InitFetch ==
    /\ file = NoFile
    /\ theads = 0
    /\ chunkSize = 0
    /\ i = 0
    /\ wg = 0
    /\ ctxDone = FALSE
    /\ errs = << >>
    /\ tripper = -1
    /\ pc = [ w \in Workers |-> "idle" ]
    /\ retry = [ w \in Workers |-> 0 ]
    /\ start = [ w \in Workers |-> 0 ]
    /\ end = [ w \in Workers |-> 0 ]
    /\ err = [ w \in Workers |-> "nil" ]
    /\ attempts = [ w \in Workers |-> 0 ]
    /\ crashed = FALSE
    /\ original = << >>
    /\ index = 0

\* --------------------------------------------------------- createTargetFile
\* Names are file parts without a path separator, as filepath.Split and
\* filepath.Base give them; Option.Dir is one fixed directory, so a path is
\* the name joined to it and disk holds the names that exist there.
NoFiles == [ n \in { } |-> "old" ]

\* os.Stat(path) does not answer "not exist".
Exists(d, path) == path \in DOMAIN d

\* os.Create(path): the file is created, or truncated if it was there.
Create(d, path) ==
    [ n \in DOMAIN d \cup { path } |-> IF n = path THEN "new" ELSE d[n] ]

\* Job.TargetFile: filepath.Join(job.Dir, job.FileNamePrefix+job.FileName)
TargetFile(prefix, name) == prefix \o name

\* Position of the last "." of name, 0 if there is none.
LastDot(name) ==
    IF ContainsDot(name)
    THEN CHOOSE k \in DOMAIN name :
           name[k] = "." /\ \A j \in DOMAIN name : name[j] = "." => j <= k
    ELSE 0

\* filepath.Ext(name)
Ext(name) ==
    IF LastDot(name) = 0 THEN << >>
    ELSE SubSeq(name, LastDot(name), Len(name))

\* The %d verb of fmt.Sprintf for n >= 0.
DigitChars == << "0", "1", "2", "3", "4", "5", "6", "7", "8", "9" >>
RECURSIVE Digits(_)
Digits(n) ==
    IF n < 10 THEN << DigitChars[n + 1] >>
    ELSE Digits(n \div 10) \o << DigitChars[(n % 10) + 1] >>

\* fmt.Sprintf("%s(%d)%s", baseWithoutExt, index, ext)
Sprintf(baseWithoutExt, k, ext) ==
    baseWithoutExt \o << "(" >> \o Digits(k) \o << ")" >> \o ext

\* strings.TrimPrefix(name, prefix)
TrimPrefix(name, prefix) ==
    IF Len(name) >= Len(prefix) /\ SubSeq(name, 1, Len(prefix)) = prefix
    THEN SubSeq(name, Len(prefix) + 1, Len(name))
    ELSE name

\* The search loop without its os.Stat: the first index is taken as it is.
FreeIndexNoStat(d, baseWithoutExt, ext, k) == k

\* "for { ... index++ }" from index k on: the first index whose newPath
\* os.Stat reports as not existing.
RECURSIVE FreeIndex(_, _, _, _)
FreeIndex(d, baseWithoutExt, ext, k) ==
    IF ~Exists(d, Sprintf(baseWithoutExt, k, ext)) THEN k
    ELSE FreeIndex(d, baseWithoutExt, ext, k + 1)

\* createTargetFile up to its os.Create: the index the loop ends with (0 if
\* the loop is not entered), the FileName the Job is left with and the path
\* handed to os.Create.
createTargetFile(d, overwrite, prefix, name) ==
    LET orig == TargetFile(prefix, name)
        base == prefix \o name
        ext == Ext(base)
        baseWithoutExt == SubSeq(base, 1, Len(base) - Len(ext))
        k == FreeIndex(d, baseWithoutExt, ext, 1)
        newName == TrimPrefix(Sprintf(baseWithoutExt, k, ext), prefix)
    IN  IF overwrite \/ ~Exists(d, orig)
        THEN [ index |-> 0, FileName |-> name, path |-> orig ]
        ELSE [ index |-> k, FileName |-> newName,
               path |-> TargetFile(prefix, newName) ]

\* An empty destination directory and the default Option of New for it.
InitDir ==
    /\ Overwrite = FALSE
    /\ FileNamePrefix = << >>
    /\ disk = NoFiles

\* ------------------------------------------------------------- Downloader
Callers == 0 .. 1
Fields == { "Dir", "FileNamePrefix", "MaxThreads", "MinChunkSize",
            "EnableSaveFileDialog", "Overwrite", "Timeout", "Cookies" }

\* The "默认参数" of New; Timeout in seconds, Cookies nil.
DefaultOption ==
    [ Dir |-> "pwd", FileNamePrefix |-> "", MaxThreads |-> 4,
      MinChunkSize |-> 500 * 1024, EnableSaveFileDialog |-> TRUE,
      Overwrite |-> FALSE, Timeout |-> 10, Cookies |-> << >> ]

\* One other value per field, for the setters a caller passes.
OtherOption ==
    [ Dir |-> "dir", FileNamePrefix |-> "pre", MaxThreads |-> 1,
      MinChunkSize |-> 0, EnableSaveFileDialog |-> FALSE,
      Overwrite |-> TRUE, Timeout |-> 0, Cookies |-> << "cookie" >> ]

\* A withOption argument: no setter, or one that assigns one field.
Setters == { [ field |-> f, other |-> b ] :
               f \in Fields \cup { "none" }, b \in BOOLEAN }

\* for _, set := range withOption { set(&opt) }
WithOption(opt, set) ==
    IF set.field = "none" THEN opt
    ELSE [ opt EXCEPT ![set.field] = IF set.other THEN OtherOption[set.field]
                                                  ELSE DefaultOption[set.field] ]

\* Option.cloneOption: the literal names seven fields; Cookies is not among
\* them and stays the zero value.
cloneOption(opt) ==
    [ Dir |-> opt.Dir, FileNamePrefix |-> opt.FileNamePrefix,
      MaxThreads |-> opt.MaxThreads, MinChunkSize |-> opt.MinChunkSize,
      EnableSaveFileDialog |-> opt.EnableSaveFileDialog,
      Overwrite |-> opt.Overwrite, Timeout |-> opt.Timeout,
      Cookies |-> << >> ]

\* A Downloader no goroutine is calling.
InitCallers ==
    /\ lastJobId = 0
    /\ jobs = << >>
    /\ callPc = [ c \in Callers |-> "idle" ]
    /\ callId = [ c \in Callers |-> 0 ]
    /\ callOpt = [ c \in Callers |-> DefaultOption ]
    /\ callExpected = [ c \in Callers |-> DefaultOption ]
    /\ calls = 0
    /\ sets = 0

\* The Downloader the Job under download came from.
InitDownloader == Option = DefaultOption /\ InitCallers

\* New(withOption...): the defaults with the caller's setter applied.
New == (\E set \in Setters : Option = WithOption(DefaultOption, set))
       /\ InitCallers

\* NewJob is entered: netUrl.Parse, then the load half of "d.lastJobId++".
NewJobEnter(c, urlOk) ==
    /\ callPc[c] = "idle"
    /\ calls < MaxCalls
    /\ calls' = calls + 1
    /\ IF urlOk
       THEN /\ callPc' = [ callPc EXCEPT ![c] = "store" ]
            /\ callId' = [ callId EXCEPT ![c] = lastJobId ]
       ELSE UNCHANGED << callPc, callId >>
    /\ UNCHANGED << lastJobId, Option, jobs, callOpt, callExpected, sets,
                    downloadVars >>

\* The store half of "d.lastJobId++".
NewJobStore(c) ==
    /\ callPc[c] = "store"
    /\ lastJobId' = U64(callId[c] + 1)
    /\ callPc' = [ callPc EXCEPT ![c] = "clone" ]
    /\ UNCHANGED << Option, jobs, callId, callOpt, callExpected, calls, sets,
                    downloadVars >>

\* opt := d.Option.cloneOption() and the setters of the call. callExpected
\* keeps d.Option as it is now, whole, with the same setter applied.
NewJobClone(c, set) ==
    /\ callPc[c] = "clone"
    /\ callOpt' = [ callOpt EXCEPT ![c] = WithOption(cloneOption(Option), set) ]
    /\ callExpected' = [ callExpected EXCEPT ![c] = WithOption(Option, set) ]
    /\ callPc' = [ callPc EXCEPT ![c] = "create" ]
    /\ UNCHANGED << lastJobId, Option, jobs, callId, calls, sets,
                    downloadVars >>

\* job := &Job{ Option: opt, id: d.lastJobId, ... } - no _lck - and return.
NewJobCreate(c) ==
    /\ callPc[c] = "create"
    /\ jobs' = Append(jobs, [ id |-> lastJobId, Option |-> callOpt[c],
                              expected |-> callExpected[c], lck |-> "nil" ])
    /\ callPc' = [ callPc EXCEPT ![c] = "idle" ]
    /\ UNCHANGED << lastJobId, Option, callId, callOpt, callExpected, calls,
                    sets, downloadVars >>

\* The owner of the Downloader assigns one of its (exported, embedded)
\* Option fields.
DownloaderSet(set) ==
    /\ sets < MaxSets
    /\ set.field # "none"
    /\ WithOption(Option, set) # Option
    /\ Option' = WithOption(Option, set)
    /\ sets' = sets + 1
    /\ UNCHANGED << lastJobId, jobs, callPc, callId, callOpt, callExpected,
                    calls, downloadVars >>

\* ------------------------------------------------------------ Job.Download
Init ==
    /\ InitDir
    /\ InitDownloader
    /\ MaxThreads \in 1 .. MaxThreadsBound
    /\ MinChunkSize \in 0 .. MaxMinChunk
    /\ EnableSaveFileDialog \in BOOLEAN
    /\ Timeout \in { 0, MaxClock, MaxClock + 1 }   \* run out at entry, in flight, never
    /\ isFtp \in BOOLEAN
    /\ InitJob
    /\ InitFetch
    /\ jobPc = "Download"
    /\ result = Ret("none")
    /\ now = 0
    /\ expired = FALSE

\* ------------------------------------------------------------------ clock
\* The probe request is in flight, or the fetch phase is running.
InFlight == jobPc \in { "fetchInfo", "launch", "wait" }

\* Time passes while the Job runs. Nothing in the Job reads the clock after
\* the select of Download; expired records that Timeout ran out in flight.
Tick ==
    /\ ~crashed
    /\ jobPc # "done"
    /\ now < MaxClock
    /\ now' = now + 1
    /\ expired' = (expired \/ (InFlight /\ now < Timeout /\ now' >= Timeout))
    /\ UNCHANGED << fsVars,
                    jobVars, optVars, mtdVars, wrkVars, jobPc, result, probe,
                    dialog, crashed >>

\* --------------------------------------------------------------- Download
\* select { case <-time.After(job.Timeout): return errors.New("下载超时") ... }
\* The timer's channel can be ready only once Timeout has run out.
DownloadTimeout ==
    /\ ~crashed
    /\ jobPc = "Download"
    /\ now >= Timeout
    /\ jobPc' = "done"
    /\ result' = Ret("ErrTimeout")
    /\ UNCHANGED << fsVars,
                    jobVars, optVars, mtdVars, wrkVars, probe, dialog, now,
                    expired, crashed >>

\* default: "if job.isFtp { return job.downloadFtp() }; return
\* job.downloadHttp()": downloadFtp dials, fetchInfo sends its HEAD request.
\* (A timer that has run out need not have delivered to its channel yet.)
DownloadDefault ==
    /\ ~crashed
    /\ jobPc = "Download"
    /\ jobPc' = IF isFtp THEN "ftpDial" ELSE "fetchInfo"
    /\ UNCHANGED << fsVars,
                    jobVars, optVars, mtdVars, wrkVars, result, probe, dialog,
                    now, expired, crashed >>

\* The error fetchInfo returns for a response status, "nil" for none.
StatusError(status) ==
    IF status = 404 THEN "ErrNotFound"
    ELSE IF status = 401 THEN "ErrUnauthorized"
    ELSE IF status > 299 THEN "ErrStatus"
    ELSE "nil"

\* fetchInfo receives the answer to its HEAD request, and downloadHttp
\* returns its error. contentLength = -1: the header is absent or unparsable.
FetchInfo(transportOk, status, acceptRanges, contentLength, name) ==
    /\ ~crashed
    /\ jobPc = "fetchInfo"
    /\ IF ~transportOk \/ StatusError(status) # "nil"
       THEN /\ probe' = "fail"
            /\ result' = Ret(IF ~transportOk THEN "ErrTransport"
                                             ELSE StatusError(status))
            /\ jobPc' = "done"
            /\ UNCHANGED << FileName, FileSize, isSupportRange, sizeParsed >>
       ELSE /\ probe' = "ok"
            /\ jobPc' = "dialog"
            /\ UNCHANGED result
            /\ IF contentLength < 0
               THEN /\ sizeParsed' = "fail"
                    /\ isSupportRange' = FALSE
                    /\ FileSize' = 0
                    /\ UNCHANGED FileName
               ELSE /\ sizeParsed' = "ok"
                    /\ isSupportRange' = acceptRanges
                    /\ FileSize' = contentLength
                    /\ FileName' = IF ~EnableSaveFileDialog THEN name
                                                            ELSE FileName
    /\ UNCHANGED << fsVars,
                    lck, optVars, mtdVars, wrkVars, dialog, now, expired,
                    crashed >>

\* The file-name check without its test for ".".
InvalidNameEmptyOnly(name) == name = NameEmpty

\* if job.FileName == "" || !strings.Contains(job.FileName, ".")
InvalidName(name) == name = NameEmpty \/ ~ContainsDot(name)

\* ftp.Dial and c.Login of downloadFtp.
FtpConnect(dialOk, loginOk) ==
    /\ ~crashed
    /\ jobPc = "ftpDial"
    /\ IF dialOk /\ loginOk
       THEN jobPc' = "dialog" /\ UNCHANGED result
       ELSE /\ jobPc' = "done"
            /\ result' = Ret(IF ~dialOk THEN "ErrFtpDial" ELSE "ErrFtpLogin")
    /\ UNCHANGED << fsVars,
                    jobVars, optVars, mtdVars, wrkVars, probe, dialog, now,
                    expired, crashed >>

\* downloadHttp after the probe, downloadFtp after the login: the chooser
\* accepted a path whose file part is name; then the file-name check.
DialogAccept(name) ==
    /\ ~crashed
    /\ jobPc = "dialog"
    /\ EnableSaveFileDialog
    /\ dialog' = "accepted"
    /\ FileName' = name
    /\ IF InvalidName(name)
       THEN jobPc' = "done" /\ result' = Ret("ErrFileName")
       ELSE jobPc' = (IF isFtp THEN "ftpRetr" ELSE "mtd") /\ UNCHANGED result
    /\ UNCHANGED << fsVars,
                    FileSize, isSupportRange, lck, sizeParsed, optVars,
                    mtdVars, wrkVars,
                    probe, now, expired, crashed >>

\* The chooser was declined: "用户取消保存。", return nil.
DialogDecline ==
    /\ ~crashed
    /\ jobPc = "dialog"
    /\ EnableSaveFileDialog
    /\ dialog' = "declined"
    /\ jobPc' = "done"
    /\ result' = Ret("nil")
    /\ UNCHANGED << fsVars,
                    jobVars, optVars, mtdVars, wrkVars, probe, now, expired,
                    crashed >>

\* EnableSaveFileDialog is off in downloadHttp: only the file-name check.
DialogSkip ==
    /\ ~crashed
    /\ jobPc = "dialog"
    /\ ~isFtp
    /\ ~EnableSaveFileDialog
    /\ IF InvalidName(FileName)
       THEN jobPc' = "done" /\ result' = Ret("ErrFileName")
       ELSE jobPc' = "mtd" /\ UNCHANGED result
    /\ UNCHANGED << fsVars,
                    jobVars, optVars, mtdVars, wrkVars, probe, dialog, now,
                    expired, crashed >>

\* filepath.Base never returns "": an empty path gives ".".
NameDot == << "." >>
BaseNames == { NameDot, NameNoExt, NameExt }

\* EnableSaveFileDialog is off in downloadFtp: job.FileName =
\* filepath.Base(job.Url.Path), then the file-name check.
FtpDialogSkip(name) ==
    /\ ~crashed
    /\ jobPc = "dialog"
    /\ isFtp
    /\ ~EnableSaveFileDialog
    /\ FileName' = name
    /\ IF InvalidName(name)
       THEN jobPc' = "done" /\ result' = Ret("ErrFileName")
       ELSE jobPc' = "ftpRetr" /\ UNCHANGED result
    /\ UNCHANGED << fsVars,
                    FileSize, isSupportRange, lck, sizeParsed, optVars,
                    mtdVars, wrkVars,
                    probe, dialog, now, expired, crashed >>

\* The rest of downloadFtp: c.Retr, createTargetFile, io.ReadAll, file.Write,
\* each returning its error; the deferred file.Close(). The object retrieved
\* has size bytes.
FtpOutcomes == { "ErrRetr", "ErrCreate", "ErrRead", "ErrWrite", "nil" }

FtpTransfer(outcome, size) ==
    /\ ~crashed
    /\ jobPc = "ftpRetr"
    /\ LET c == createTargetFile(disk, Overwrite, FileNamePrefix, FileName)
       IN  IF outcome = "ErrRetr"
           THEN UNCHANGED << file, FileName, fsVars >>
           ELSE /\ original' = TargetFile(FileNamePrefix, FileName)
                /\ index' = c.index
                /\ FileName' = c.FileName
                /\ IF outcome = "ErrCreate"
                   THEN UNCHANGED << file, disk >>
                   ELSE /\ disk' = Create(disk, c.path)
                        /\ file' = [ exists |-> TRUE,
                                     bytes |-> IF outcome = "nil"
                                               THEN Resource(size) ELSE << >>,
                                     closed |-> TRUE ]
    /\ result' = Ret(outcome)
    /\ jobPc' = "done"
    /\ UNCHANGED << tripper, FileSize, isSupportRange, lck, sizeParsed, optVars, theads,
                    chunkSize, i, wg, ctxDone, errs, wrkVars, probe, dialog,
                    now, expired, crashed >>

\* ---------------------------------------------------- multiThreadDownload
\* theads := job.AvaiableTreads(); file, err := job.createTargetFile();
\* chunkSize. createOk = FALSE: os.Create failed, the error is returned
\* (the FileName the search loop chose stays).
MtdStart(createOk) ==
    /\ ~crashed
    /\ jobPc = "mtd"
    /\ theads' = AvaiableTreads
    /\ LET c == createTargetFile(disk, Overwrite, FileNamePrefix, FileName)
       IN  /\ original' = TargetFile(FileNamePrefix, FileName)
           /\ index' = c.index
           /\ FileName' = c.FileName
           /\ disk' = IF createOk THEN Create(disk, c.path) ELSE disk
    /\ IF createOk
       THEN /\ file' = [ exists |-> TRUE, bytes |-> << >>, closed |-> FALSE ]
            /\ chunkSize' = ChunkSizeOf(FileSize, theads')
            /\ i' = 0
            /\ jobPc' = "launch"
            /\ UNCHANGED result
       ELSE /\ jobPc' = "done"
            /\ result' = Ret("ErrCreate")
            /\ UNCHANGED << file, chunkSize, i >>
    /\ UNCHANGED << tripper, FileSize, isSupportRange, lck, sizeParsed, optVars, wg,
                    ctxDone, errs, wrkVars, probe, dialog, now, expired,
                    crashed >>

\* One pass of "for i := 0; i < theads; i++": the range of worker i,
\* wg.Add(1), go func(index int) with retry := 0.
Launch ==
    /\ ~crashed
    /\ jobPc = "launch"
    /\ i < theads
    /\ start' = [ start EXCEPT ![i] = RangeStart(i, chunkSize) ]
    /\ end' = [ end EXCEPT ![i] = RangeEnd(i, chunkSize, theads, FileSize) ]
    /\ wg' = wg + 1
    /\ pc' = [ pc EXCEPT ![i] = "select" ]
    /\ retry' = [ retry EXCEPT ![i] = 0 ]
    /\ i' = i + 1
    /\ jobPc' = IF i' < theads THEN "launch" ELSE "wait"
    /\ UNCHANGED << tripper, fsVars,
                    jobVars, optVars, file, theads, chunkSize, ctxDone, errs,
                    err, attempts, result, probe, dialog, now, expired, crashed >>

\* A barrier that lets go while one goroutine is still out.
WaitReturnsAtOne(counter) == counter <= 1

\* wg.Wait() blocks until the WaitGroup counter is zero.
WaitReturns(counter) == counter = 0

\* The last element of errs instead of the first.
LastError(es) == es[Len(es)]

\* errs[0] of "return errs[0] // 返回第一个遇到的错误" (sequences start at 1)
FirstError(es) == es[1]

\* wg.Wait() returns; "if len(errs) > 0 { return errs[0] }; return nil"; the
\* deferred cancel() and file.Close() run, and Download returns the value.
Wait ==
    /\ ~crashed
    /\ jobPc = "wait"
    /\ WaitReturns(wg)
    /\ result' = IF Len(errs) > 0 THEN FirstError(errs) ELSE Ret("nil")
    /\ ctxDone' = TRUE
    /\ file' = [ file EXCEPT !.closed = TRUE ]
    /\ jobPc' = "done"
    /\ UNCHANGED << tripper, fsVars,
                    jobVars, optVars, theads, chunkSize, i, wg, errs, wrkVars,
                    probe, dialog, now, expired, crashed >>

\* ------------------------------------------------------------ chunk worker
\* "select { case <-ctx.Done(): return; default: err := job.downloadChunk(...)":
\* the worker returns (deferred wg.Done()), or calls downloadChunk, which sends
\* the request "Range: bytes=start-end".
WorkerSelect(w) ==
    /\ ~crashed
    /\ pc[w] = "select"
    /\ IF ctxDone
       THEN /\ pc' = [ pc EXCEPT ![w] = "returned" ]
            /\ wg' = wg - 1
            /\ UNCHANGED attempts
       ELSE /\ pc' = [ pc EXCEPT ![w] = "request" ]
            /\ attempts' = [ attempts EXCEPT ![w] = @ + 1 ]
            /\ UNCHANGED wg
    /\ UNCHANGED << tripper, fsVars,
                    jobVars, optVars, file, theads, chunkSize, i, ctxDone, errs,
                    retry, start, end, err, jobPc, result, probe, dialog, now,
                    expired, crashed >>

\* The answers a ranged request can get: a transport error, a status other
\* than 206, or 206 with exactly the bytes asked for.
Answers == { "ErrTransport", "ErrRangeNotHonored", "PartialContent" }

\* The retry bound compared one too late.
RetryExhaustedLate(r) == r > MaxRetry

\* "if retry >= 3": the worker's retries are used up.
RetryExhausted(r) == r >= MaxRetry

\* Only a failed exchange counts as a failed attempt, whatever the status.
ChunkFailedTransportOnly(answer) == answer = "ErrTransport"

\* downloadChunk returns an error before its Lock: "if err != nil" after Do,
\* or "if resp.StatusCode != http.StatusPartialContent".
ChunkFailed(answer) == answer # "PartialContent"

\* http.DefaultClient.Do returns. On an error downloadChunk returns it and the
\* worker's loop goes on: "if retry >= 3 {...}" else "retry++". On 206
\* downloadChunk goes on to job._lck.Lock().
WorkerResponse(w, answer) ==
    /\ ~crashed
    /\ pc[w] = "request"
    /\ IF ~ChunkFailed(answer)
       THEN /\ pc' = [ pc EXCEPT ![w] = "lock" ]
            /\ UNCHANGED << retry, err >>
       ELSE IF RetryExhausted(retry[w])
       THEN /\ pc' = [ pc EXCEPT ![w] = "record" ]
            /\ err' = [ err EXCEPT ![w] = answer ]
            /\ UNCHANGED retry
       ELSE /\ pc' = [ pc EXCEPT ![w] = "select" ]
            /\ retry' = [ retry EXCEPT ![w] = @ + 1 ]
            /\ UNCHANGED err
    /\ UNCHANGED << fsVars,
                    jobVars, optVars, mtdVars, start, end, attempts, jobPc,
                    result, probe, dialog, now, expired, crashed >>

\* job._lck.Lock() on the Job's mutex pointer. NewJob leaves _lck nil, so the
\* call dereferences nil and the goroutine panics: its deferred
\* resp.Body.Close() and wg.Done() ("defer wg.Done()" of the go func) run,
\* nothing recovers. (The seek and the
\* copy that follow the Lock are never reached.)
WorkerLock(w) ==
    /\ ~crashed
    /\ pc[w] = "lock"
    /\ lck = "nil"
    /\ pc' = [ pc EXCEPT ![w] = "panicked" ]
    /\ wg' = wg - 1
    /\ UNCHANGED << tripper, fsVars,
                    jobVars, optVars, file, theads, chunkSize, i, ctxDone, errs,
                    retry, start, end, err, attempts, jobPc, result, probe,
                    dialog, now, expired, crashed >>

\* The runtime ends the process after a goroutine's unrecovered panic; the
\* other goroutines run until it does.
ProcessExit ==
    /\ ~crashed
    /\ \E w \in Workers : pc[w] = "panicked"
    /\ crashed' = TRUE
    /\ UNCHANGED << fsVars,
                    jobVars, optVars, mtdVars, wrkVars, jobPc, result, probe,
                    dialog, now, expired >>

\* errLock.Lock(); errs = append(errs, err); errLock.Unlock()
WorkerRecord(w) ==
    /\ ~crashed
    /\ pc[w] = "record"
    /\ errs' = Append(errs, ChunkErr(err[w], w))
    /\ pc' = [ pc EXCEPT ![w] = "cancel" ]
    /\ UNCHANGED << tripper, fsVars,
                    jobVars, optVars, file, theads, chunkSize, i, wg, ctxDone,
                    retry, start, end, err, attempts, jobPc, result, probe,
                    dialog, now, expired, crashed >>

\* cancel(); return (deferred wg.Done())
WorkerCancel(w) ==
    /\ ~crashed
    /\ pc[w] = "cancel"
    /\ ctxDone' = TRUE
    /\ tripper' = IF ctxDone THEN tripper ELSE w
    /\ pc' = [ pc EXCEPT ![w] = "returned" ]
    /\ wg' = wg - 1
    /\ UNCHANGED << fsVars,
                    jobVars, optVars, file, theads, chunkSize, i, errs, retry,
                    start, end, err, attempts, jobPc, result, probe, dialog, now,
                    expired, crashed >>

\* ------------------------------------------------------------------- Next
Statuses == { 200, 299, 300, 401, 404, 500 }

JobStep ==
    \/ DownloadTimeout
    \/ DownloadDefault
    \/ \E dialOk \in BOOLEAN, loginOk \in BOOLEAN : FtpConnect(dialOk, loginOk)
    \/ \E name \in BaseNames : FtpDialogSkip(name)
    \/ \E outcome \in FtpOutcomes, size \in 0 .. MaxSize :
          FtpTransfer(outcome, size)
    \/ \E transportOk \in BOOLEAN, status \in Statuses, acceptRanges \in BOOLEAN,
          contentLength \in -1 .. MaxSize, name \in Names :
            FetchInfo(transportOk, status, acceptRanges, contentLength, name)
    \/ \E name \in Names : DialogAccept(name)
    \/ DialogDecline
    \/ DialogSkip
    \/ \E createOk \in BOOLEAN : MtdStart(createOk)
    \/ Launch
    \/ Wait

WorkerStep(w) ==
    \/ WorkerSelect(w)
    \/ \E answer \in Answers : WorkerResponse(w, answer)
    \/ WorkerLock(w)
    \/ WorkerRecord(w)
    \/ WorkerCancel(w)

Next ==
    \/ Tick
    \/ JobStep
    \/ \E w \in Workers : WorkerStep(w)
    \/ ProcessExit

Spec == Init /\ [][Next]_vars

\* --------------------------------------------------------------- SpecPlan
\* The range planning of multiThreadDownload on its own: the Job enters
\* multiThreadDownload with the FileSize and isSupportRange a probe left and
\* the Option of the caller, and the launch loop hands out the ranges.
PlanSizes == (0 .. PlanMaxSize) \cup { 2000000 }
PlanMinChunks == (0 .. PlanMaxMinChunk) \cup { 500000 }

InitPlan ==
    /\ InitDir
    /\ InitDownloader
    /\ MaxThreads \in 1 .. PlanMaxThreads
    /\ MinChunkSize \in PlanMinChunks
    /\ EnableSaveFileDialog = TRUE
    /\ Timeout = MaxClock + 1
    /\ isFtp = FALSE
    /\ FileName = NameExt
    /\ FileSize \in PlanSizes
    /\ isSupportRange \in BOOLEAN
    /\ lck = "nil"
    /\ sizeParsed = "ok"
    /\ probe = "ok"
    /\ dialog = "accepted"
    /\ InitFetch
    /\ jobPc = "mtd"
    /\ result = Ret("none")
    /\ now = 0
    /\ expired = FALSE

NextPlan ==
    \/ \E createOk \in BOOLEAN : MtdStart(createOk)
    \/ Launch

SpecPlan == InitPlan /\ [][NextPlan]_vars

\* ------------------------------------------------------------- SpecNewJob
\* A Downloader made by New, goroutines calling NewJob on it (each call with
\* at most one setter) and its owner changing its Option meanwhile. No Job
\* is downloading.
InitNewJob ==
    /\ InitDir
    /\ New
    /\ MaxThreads = 1
    /\ MinChunkSize = 0
    /\ EnableSaveFileDialog = FALSE
    /\ Timeout = 0
    /\ isFtp = FALSE
    /\ InitJob
    /\ InitFetch
    /\ jobPc = "Download"
    /\ result = Ret("none")
    /\ now = 0
    /\ expired = FALSE

CallerStep(c) ==
    \/ \E urlOk \in BOOLEAN : NewJobEnter(c, urlOk)
    \/ NewJobStore(c)
    \/ \E set \in Setters : NewJobClone(c, set)
    \/ NewJobCreate(c)

NextNewJob ==
    \/ \E c \in Callers : CallerStep(c)
    \/ \E set \in Setters : DownloaderSet(set)

SpecNewJob == InitNewJob /\ [][NextNewJob]_vars

\* ------------------------------------------------------------- SpecCreate
\* createTargetFile on its own, from both of its callers: the Job is about
\* to enter multiThreadDownload or, for ftp, has its name and is about to
\* retrieve; the destination directory holds any of the names the search
\* can meet.
Prefixes == { << >>, << "f" >>, << "p", "." >> }
CreateNames == { NameExt, << ".", "t" >>, << "f", ".", "g", ".", "t" >> }

\* path with "(k)" put before its extension: base(k).ext
Numbered(path, k) ==
    LET d == LastDot(path)
        stem == IF d = 0 THEN path ELSE SubSeq(path, 1, d - 1)
        tail == IF d = 0 THEN << >> ELSE SubSeq(path, d, Len(path))
    IN  stem \o << "(" >> \o Digits(k) \o << ")" >> \o tail

Candidates(prefix, name) ==
    { TargetFile(prefix, name), name, Numbered(name, 1) }
        \cup { Numbered(TargetFile(prefix, name), k) : k \in 1 .. MaxIndex }

InitCreate ==
    /\ InitDownloader
    /\ Overwrite \in BOOLEAN
    /\ FileNamePrefix \in Prefixes
    /\ FileName \in CreateNames
    /\ disk \in { [ n \in S |-> "old" ] :
                    S \in SUBSET Candidates(FileNamePrefix, FileName) }
    /\ isFtp \in BOOLEAN
    /\ jobPc = IF isFtp THEN "ftpRetr" ELSE "mtd"
    /\ probe = IF isFtp THEN "none" ELSE "ok"
    /\ sizeParsed = IF isFtp THEN "none" ELSE "ok"
    /\ dialog = "none"
    /\ MaxThreads = 1
    /\ MinChunkSize = 0
    /\ EnableSaveFileDialog = FALSE
    /\ Timeout = MaxClock + 1
    /\ FileSize = 0
    /\ isSupportRange = FALSE
    /\ lck = "nil"
    /\ InitFetch
    /\ result = Ret("none")
    /\ now = 0
    /\ expired = FALSE

NextCreate ==
    \/ \E createOk \in BOOLEAN : MtdStart(createOk)
    \/ \E outcome \in FtpOutcomes, size \in 0 .. MaxSize :
          FtpTransfer(outcome, size)

SpecCreate == InitCreate /\ [][NextCreate]_vars

\* The launch loop has handed a range to each of the theads workers.
AllLaunched == jobPc = "wait" /\ i = theads

\* n is the ceiling of a / b (b > 0).
IsCeiling(n, a, b) == (n - 1) * b < a /\ a <= n * b

\* C1: for totalSize >= 1, MinChunkSize > 0 and MaxThreads >= 1 the ranges
\* handed to the workers are ascending and contiguous, each with start <= end,
\* the first starting at 0 and the last ending at totalSize-1 (a partition of
\* [0,totalSize-1]).
C1_RangesPartition ==
    (AllLaunched /\ FileSize >= 1 /\ MinChunkSize > 0 /\ MaxThreads >= 1) =>
        /\ start[0] = 0
        /\ end[theads - 1] = FileSize - 1
        /\ \A w \in 0 .. (theads - 1) : start[w] <= end[w]
        /\ \A w \in 0 .. (theads - 2) : start[w + 1] = end[w] + 1

\* C8: for a range-capable resource with totalSize >= MinChunkSize > 0 the
\* plan is the reference plan: workerCount = ceiling(totalSize/MinChunkSize)
\* clamped to [1,MaxThreads], chunkSize = ceiling(totalSize/workerCount),
\* range k = [k*chunkSize,(k+1)*chunkSize-1] with the last end totalSize-1;
\* 2,000,000 bytes with MinChunkSize 500,000 and MaxThreads 4 give the four
\* ranges of 500,000 bytes.
C8_PlanIsReference ==
    (AllLaunched /\ isSupportRange /\ MinChunkSize > 0
                 /\ FileSize >= MinChunkSize) =>
        /\ IF FileSize > MaxThreads * MinChunkSize
           THEN theads = MaxThreads
           ELSE IsCeiling(theads, FileSize, MinChunkSize)
        /\ theads >= 1
        /\ IsCeiling(chunkSize, FileSize, theads)
        /\ \A w \in 0 .. (theads - 1) :
              /\ start[w] = w * chunkSize
              /\ end[w] = IF w = theads - 1 THEN FileSize - 1
                                            ELSE (w + 1) * chunkSize - 1
        /\ \A w \in Workers : (pc[w] # "idle") <=> (w < theads)
        /\ (FileSize = 2000000 /\ MinChunkSize = 500000 /\ MaxThreads = 4) =>
              /\ theads = 4
              /\ << start[0], end[0] >> = << 0, 499999 >>
              /\ << start[1], end[1] >> = << 500000, 999999 >>
              /\ << start[2], end[2] >> = << 1000000, 1499999 >>
              /\ << start[3], end[3] >> = << 1500000, 1999999 >>

\* C8 witness: the plan of 2,000,000 bytes, MinChunkSize 500,000, MaxThreads 4
\* has been handed out.
C8_Witness ==
    /\ AllLaunched
    /\ isSupportRange
    /\ FileSize = 2000000
    /\ MinChunkSize = 500000
    /\ MaxThreads = 4
    /\ theads = 4

\* C9: with supportsRange false, or totalSize < MinChunkSize, or
\* MinChunkSize = 0, exactly one worker is launched, for every totalSize
\* (0 included), and its range is [0,totalSize-1] without wrap-around.
C9_SingleRangeNoWrap ==
    (AllLaunched /\ (~isSupportRange \/ FileSize < MinChunkSize
                                     \/ MinChunkSize = 0)) =>
        /\ theads = 1
        /\ \A w \in Workers : (pc[w] # "idle") <=> (w = 0)
        /\ start[0] = 0
        /\ end[0] = FileSize - 1

\* --------------------------------------------------------------- SpecFair
\* The Go scheduler runs every runnable goroutine, every request returns, the
\* chooser is answered, and the runtime ends a process whose goroutine
\* panicked.
SpecFair ==
    /\ Spec
    /\ WF_vars(JobStep)
    /\ \A w \in Workers : WF_vars(WorkerStep(w))
    /\ WF_vars(ProcessExit)

\* ------------------------------------------------------- the fetch phase
Launched == { w \in Workers : pc[w] # "idle" }

\* multiThreadDownload has returned after its join barrier.
FetchReturned == jobPc = "done" /\ ~isFtp /\ file.exists /\ file.closed

\* Download returned an error.
ReturnedError == jobPc = "done" /\ result.kind \notin { "none", "nil" }

\* The destination file holds the resource's bytes on worker w's range.
RangeWritten(w) ==
    \A k \in 0 .. (FileSize - 1) :
        (start[w] <= k /\ k <= end[w]) =>
            /\ k + 1 \in DOMAIN file.bytes
            /\ file.bytes[k + 1] = ResourceByte(k)

\* Worker w exhausted its retries: its last error is set for recording.
FailedPermanently(w) == err[w] # "nil"

\* Worker w has tripped the cancellation token.
Tripped(w) == FailedPermanently(w) /\ pc[w] = "returned"

C3_FileEqualsResource ==
    (FetchReturned /\ result = Ret("nil")) =>
        /\ Len(file.bytes) = FileSize
        /\ \A k \in 0 .. (FileSize - 1) : file.bytes[k + 1] = ResourceByte(k)

\* C4: once a worker has exhausted its retries and tripped the cancellation
\* token, no other worker begins a new attempt, and eventually every worker
\* has returned and Download has returned a non-nil error.
C4_CancelStopsAll ==
    /\ [][ (\E t \in Workers : Tripped(t)) =>
             \A w \in Workers : ~(pc[w] = "select" /\ pc'[w] = "request") ]_vars
    /\ ((\E t \in Workers : Tripped(t)) ~>
            (ReturnedError /\ \A w \in Launched : pc[w] = "returned"))

\* C5: multiThreadDownload returns success exactly when every launched worker
\* completed the fetch and write of its range; if a worker failed permanently
\* it returns the first recorded error; and it returns only after all workers
\* have returned.
C5_SuccessIffAllWritten ==
    FetchReturned =>
        /\ (result = Ret("nil")) <=>
              (\A w \in Launched :
                  pc[w] = "returned" /\ ~FailedPermanently(w) /\ RangeWritten(w))
        /\ (\E w \in Launched : FailedPermanently(w)) =>
              (Len(errs) > 0 /\ result = errs[1] /\ result.kind # "nil")
        /\ \A w \in Launched : pc[w] = "returned"

\* C6: if Timeout runs out while the Job is probing or its workers are
\* fetching, Download returns the timeout error.
C6_TimeoutBoundsFetch ==
    (jobPc = "done" /\ expired) => result = Ret("ErrTimeout")

\* C7: a worker makes at most 4 attempts, declares permanent failure exactly
\* when its 4th attempt failed, and a worker that finds the token tripped at
\* its check returns without an attempt and without recording an error.
C7_FourAttemptsThenFail ==
    /\ [] \A w \in Workers :
            /\ attempts[w] <= 4
            /\ FailedPermanently(w) => attempts[w] = 4
            /\ (attempts[w] = 4 /\ pc[w] \in { "select", "record", "cancel",
                                                "returned" })
                  => FailedPermanently(w)
            /\ (pc[w] \in { "record", "cancel" }) => FailedPermanently(w)
    /\ [][ \A w \in Workers :
              (pc[w] = "select" /\ ctxDone /\ pc'[w] # "select") =>
                  /\ pc'[w] = "returned"
                  /\ attempts'[w] = attempts[w]
                  /\ errs' = errs
                  /\ err'[w] = "nil" ]_vars

\* C7 witness: one worker failed permanently on its 4th attempt and another
\* returned at its token check after fewer attempts, recording nothing.
C7_Witness ==
    \E w, v \in Workers :
        /\ Tripped(w)
        /\ attempts[w] = 4
        /\ pc[v] = "returned"
        /\ ~FailedPermanently(v)
        /\ attempts[v] < 4
        /\ Len(errs) = 1

\* C10: if the probe fails, or the resolved file name is empty or has no ".",
\* Download returns an error, no destination file is created, no worker is
\* started and no ranged request is issued.
C10_NoFetchOnProbeOrNameFailure ==
    ( /\ jobPc = "done"
      /\ \/ probe = "fail"
         \/ /\ probe = "ok"
            /\ dialog # "declined"
            /\ \A k \in DOMAIN FileName : FileName[k] # "." ) =>
        /\ result.kind \notin { "none", "nil" }
        /\ ~file.exists
        /\ \A w \in Workers : pc[w] = "idle" /\ attempts[w] = 0

\* C10 witness: the chooser returned a name without "." after a good probe,
\* and Download has returned.
C10_Witness ==
    /\ jobPc = "done"
    /\ probe = "ok"
    /\ dialog = "accepted"
    /\ FileName = NameNoExt
    /\ result = Ret("ErrFileName")

\* The value Download returns after a fetch phase in which every worker
\* succeeded.
SucceededValue == Ret("nil")

\* C11: a declined chooser ends the Job in a Cancelled outcome: Download
\* reports no error, no destination file is created, no worker is started,
\* and what the caller gets is not what it gets for Succeeded.
C11_DeclineIsCancelled ==
    (jobPc = "done" /\ dialog = "declined") =>
        /\ result.kind \notin { "none", "ErrTimeout", "ErrTransport",
                                "ErrNotFound", "ErrUnauthorized", "ErrStatus",
                                "ErrFileName", "ErrCreate", "ErrFtpDial",
                                "ErrFtpLogin", "ErrRetr", "ErrRead", "ErrWrite",
                                "ErrRangeNotHonored" }
        /\ ~file.exists
        /\ \A w \in Workers : pc[w] = "idle"
        /\ result # SucceededValue

\* C12: after a probe whose size is absent or unparsable the Job has
\* FileSize = 0 and no range support, and - unless the chooser is declined,
\* the chosen name is refused or the destination cannot be created - it runs
\* the fetch phase with exactly one worker, the chooser enabled or not.
C12_UnknownSizeSingleWorker ==
    ( /\ jobPc = "done"
      /\ sizeParsed = "fail"
      /\ dialog # "declined"
      /\ ~(dialog = "accepted" /\ InvalidName(FileName))
      /\ result.kind # "ErrCreate" ) =>
        /\ FileSize = 0
        /\ ~isSupportRange
        /\ theads = 1
        /\ Launched = { 0 }

\* C13: the ids of the Jobs of one Downloader are pairwise distinct, and a
\* Job created later has a strictly larger id than every Job created before
\* it, also when the NewJob calls run concurrently.
C13_IdsDistinctAndIncreasing ==
    \A j \in 1 .. Len(jobs) : \A k \in 1 .. Len(jobs) :
        j < k => jobs[j].id < jobs[k].id

\* C14: every field of a Job's Option is the Downloader's at the moment of
\* the NewJob call with the call's overrides applied, and nothing that
\* happens to the Downloader afterwards changes a Job already created.
C14_JobOptionIsSnapshot ==
    /\ [](\A k \in 1 .. Len(jobs) :
            \A f \in Fields : jobs[k].Option[f] = jobs[k].expected[f])
    /\ [][\A k \in 1 .. Len(jobs) : jobs'[k] = jobs[k]]_vars

\* createTargetFile has created the destination with Overwrite off.
CreatedNoOverwrite == ~Overwrite /\ file.exists

\* C15: with Overwrite off, createTargetFile creates the target name itself
\* when it is free and otherwise base(k).ext for the smallest k >= 1 that
\* does not exist; the name created is the one the Job's FileName (with the
\* prefix) denotes afterwards, and no name that existed is created over or
\* truncated.
C15_FirstFreeName ==
    /\ [](CreatedNoOverwrite =>
            LET path == TargetFile(FileNamePrefix, FileName)
            IN  /\ Exists(disk, path) /\ disk[path] = "new"
                /\ \A n \in DOMAIN disk : n # path => disk[n] = "old"
                /\ path # original =>
                      /\ Exists(disk, original)
                      /\ \E k \in 1 .. MaxIndex + 1 :
                            /\ path = Numbered(original, k)
                            /\ \A j \in 1 .. k - 1 :
                                  Exists(disk, Numbered(original, j)))
    /\ [][~Overwrite =>
            \A n \in DOMAIN disk : Exists(disk', n) /\ disk'[n] = disk[n]]_vars

\* C15 witness: with a prefix set, the target and base(1).ext were taken and
\* base(2).ext was created.
C15_Witness ==
    /\ CreatedNoOverwrite
    /\ FileNamePrefix # << >>
    /\ Exists(disk, original) /\ disk[original] = "old"
    /\ Exists(disk, Numbered(original, 1))
    /\ TargetFile(FileNamePrefix, FileName) = Numbered(original, 2)
    /\ disk[Numbered(original, 2)] = "new"

\* C16, as claimed: when workers failed permanently, the error Download
\* returns is the error of the worker whose cancel() tripped the token
\* first; and the token, once tripped, stays tripped.
C16_FirstTripperWins ==
    /\ []((FetchReturned /\ Len(errs) > 0) =>
            /\ tripper \in Workers
            /\ result = ChunkErr(err[tripper], tripper))
    /\ [][ctxDone => ctxDone']_vars

\* C16, amended: the error Download returns is the first one recorded in
\* errs - recording and tripping are two steps, and another worker may do
\* both between them; errs only grows at its end, one error per failed
\* worker; the token, once tripped, stays tripped and its first tripper
\* does not change.
C16_FirstRecordedWins ==
    /\ []((FetchReturned /\ Len(errs) > 0) =>
            /\ result = errs[1]
            /\ \A k \in 1 .. Len(errs) :
                  /\ errs[k].worker \in Launched
                  /\ errs[k] = ChunkErr(err[errs[k].worker], errs[k].worker)
                  /\ \A j \in 1 .. Len(errs) :
                        errs[j].worker = errs[k].worker => j = k)
    /\ [][errs' = errs \/ (\E e \in { ChunkErr(err[w], w) : w \in Workers } :
                               errs' = Append(errs, e))]_vars
    /\ [][(ctxDone => ctxDone') /\ (tripper # -1 => tripper' = tripper)]_vars

\* C16 witness: two workers failed permanently and the one that recorded
\* first, whose error Download returned, is not the one that tripped first.
C16_Witness ==
    /\ FetchReturned
    /\ Len(errs) = 2
    /\ result = errs[1]
    /\ tripper = errs[2].worker

\* The goroutine of worker w has ended: it returned, or it panicked and ran
\* its deferred calls.
Ended(w) == pc[w] \in { "returned", "panicked" }

C18_NotPartialIsFailedAttempt ==
    /\ [][\A w \in Workers : WorkerResponse(w, "ErrRangeNotHonored") =>
            /\ file' = file
            /\ lck' = lck
            /\ pc'[w] # "lock"
            /\ attempts'[w] = attempts[w]
            /\ IF retry[w] < MaxRetry
               THEN pc'[w] = "select" /\ retry'[w] = retry[w] + 1
               ELSE pc'[w] = "record" /\ err'[w] = "ErrRangeNotHonored"]_vars
    /\ []((~isSupportRange /\ err[0] = "ErrRangeNotHonored") =>
            /\ theads = 1
            /\ attempts[0] = MaxRetry + 1
            /\ file.bytes = << >>)

\* C18 witness: the single worker of a resource without range support got
\* a status other than 206 on its fourth attempt and Download returned its
\* error.
C18_Witness ==
    /\ FetchReturned
    /\ ~isSupportRange
    /\ theads = 1
    /\ attempts[0] = MaxRetry + 1
    /\ result = ChunkErr("ErrRangeNotHonored", 0)

\* C19: the Job's write lock is set to a usable mutex before any worker
\* reaches the lock acquisition of downloadChunk, so no worker crashes on an
\* unset lock and the process is never ended by it.
C19_LockIsSet ==
    /\ \A w \in Workers : pc[w] = "lock" => lck \in { "unlocked", "locked" }
    /\ \A w \in Workers : pc[w] # "panicked"
    /\ ~crashed

\* The fetch phase has started: multiThreadDownload is launching workers.
FetchStarted == jobPc = "launch"

\* C20: every request being answered, a fetch phase that has started ends:
\* the write lock is not left held, every launched worker returns (after at
\* most MaxRetry + 1 attempts) and multiThreadDownload passes its join
\* barrier and returns.
C20_FetchTerminates ==
    FetchStarted ~>
        ( /\ FetchReturned
          /\ lck # "locked"
          /\ \A w \in Launched :
                pc[w] = "returned" /\ attempts[w] <= MaxRetry + 1 )

====
